---- MODULE Spec2Model ----
(***************************************************************************)
(* Vulkan context bring-up of src/main.rs: main, App::create (instance,    *)
(* debug messenger, surface, physical-device selection, logical device),   *)
(* the winit event-loop closure, and App::destroy.                         *)
(*                                                                         *)
(* The driver and the window system are the environment: what they answer  *)
(* (the devices, their queue families, extensions, formats, present modes, *)
(* a failing native call, the next window event) is drawn with \E.         *)
(* The build modelled is a non-macOS target: cfg!(target_os = "macos") is  *)
(* false, so the portability branches (lines 176-186, 423-426) are not     *)
(* taken.                                                                  *)
(***************************************************************************)
EXTENDS Integers, Sequences, FiniteSets, TLC

\* ---------------------------------------------------------------- bounds
MaxDevices == 2
MaxFamilies == 2
MaxFormats == 1
MaxPresentModes == 1
MaxEvents == 3

\* ------------------------------------------------------------- constants
VALIDATION_LAYER == "VK_LAYER_KHRONOS_validation"
DEVICE_EXTENSIONS == {"VK_KHR_swapchain"}

\* What a driver may report beyond the required names.
ExtensionUniverse == DEVICE_EXTENSIONS \cup {"VK_KHR_maintenance1"}
LayerUniverse == {VALIDATION_LAYER}
QueueFlagSets == {{"GRAPHICS"}, {"TRANSFER"}}
SurfaceFormats == {"B8G8R8A8_SRGB"}
PresentModes == {"FIFO"}

\* Option<T>: None is the empty sequence, Some(v) the one-element sequence.
None == <<>>
Some(v) == <<v>>
IsSome(o) == Len(o) = 1
Unwrap(o) == o[1]

SeqsUpTo(S, n) == UNION {[1..k -> S] : k \in 0..n}

\* ------------------------------------------------------------ the driver
\* One queue family as the driver describes it: its capability flags
\* (get_physical_device_queue_family_properties) and its answer to
\* get_physical_device_surface_support_khr for the application's surface.
QueueFamily == [queue_flags : QueueFlagSets, surface_support : BOOLEAN]

\* One physical device as the driver describes it.
PhysicalDevice ==
    [families      : SeqsUpTo(QueueFamily, MaxFamilies),
     extensions    : SUBSET ExtensionUniverse,
     formats       : SeqsUpTo(SurfaceFormats, MaxFormats),
     present_modes : SeqsUpTo(PresentModes, MaxPresentModes)]

\* A native query that returns a non-success status while a device is being
\* examined (at most one per examination): the per-family surface-support
\* query of one family, or one of the three swapchain-support queries.
NoFault == [query |-> "none", family |-> 0]
SupportFault(i) == [query |-> "get_physical_device_surface_support_khr", family |-> i]
CapabilitiesFault == [query |-> "get_physical_device_surface_capabilities_khr", family |-> 0]
FormatsFault == [query |-> "get_physical_device_surface_formats_khr", family |-> 0]
PresentModesFault == [query |-> "get_physical_device_surface_present_modes_khr", family |-> 0]
Faults(dev) ==
    {NoFault, CapabilitiesFault, FormatsFault, PresentModesFault}
        \cup {SupportFault(i) : i \in 0..(Len(dev.families) - 1)}

\* ---------------------------------------------------------------- errors
NoError == "none"
ErrQueueFamilies == "SuitabilityError(Missing required queue families)"
ErrExtensions == "SuitabilityError(Missing required device extensions)"
ErrSwapchain == "SuitabilityError(Insufficient swapchain support)"
ErrDriver == "vk::ErrorCode"
ErrLoader == "loader error"
ErrLayer == "Validation layer requested but not supported"
ErrNoDevice == "No suitable physical device found"

Ok(v) == [ok |-> TRUE, error |-> NoError, value |-> Some(v)]
Err(e) == [ok |-> FALSE, error |-> e, value |-> None]

NullHandle == 0

\* ------------------------------------------------ QueueFamilyIndices::get
\* properties.iter().position(|p| p.queue_flags.contains(GRAPHICS)), scanning
\* from sequence position i; the index returned is 0-based as in the code.
RECURSIVE GraphicsPosition(_, _)
GraphicsPosition(properties, i) ==
    IF i > Len(properties) THEN None
    ELSE IF "GRAPHICS" \in properties[i].queue_flags THEN Some(i - 1)
    ELSE GraphicsPosition(properties, i + 1)

\* The presentation loop keeps the last family that answers true and does not
\* stop: the loop of lines 242-254 with its break left out.
RECURSIVE PresentationScanNoBreak(_, _, _)
PresentationScanNoBreak(properties, fault, i) ==
    IF i > Len(properties) THEN Ok(None)
    ELSE IF fault = SupportFault(i - 1) THEN Err(ErrDriver)
    ELSE LET rest == PresentationScanNoBreak(properties, fault, i + 1)
         IN  IF ~rest.ok THEN rest
             ELSE IF IsSome(Unwrap(rest.value)) THEN rest
             ELSE IF properties[i].surface_support THEN Ok(Some(i - 1))
             ELSE rest

\* The loop of lines 242-254 from sequence position i: the surface-support
\* query of family i-1 is made; a failing query returns the error (the ?),
\* a true answer sets presentation and breaks.
RECURSIVE PresentationScan(_, _, _)
PresentationScan(properties, fault, i) ==
    IF i > Len(properties) THEN Ok(None)
    ELSE IF fault = SupportFault(i - 1) THEN Err(ErrDriver)
    ELSE IF properties[i].surface_support THEN Ok(Some(i - 1))
    ELSE PresentationScan(properties, fault, i + 1)

QueueFamilyIndices_get(dev, fault) ==
    LET properties == dev.families
        graphics == GraphicsPosition(properties, 1)
        scan == PresentationScan(properties, fault, 1)
    IN  IF ~scan.ok THEN Err(scan.error)
        ELSE LET presentation == Unwrap(scan.value)
             IN  IF IsSome(graphics) /\ IsSome(presentation)
                 THEN Ok([graphics |-> Unwrap(graphics),
                          presentation |-> Unwrap(presentation)])
                 ELSE Err(ErrQueueFamilies)

\* --------------------------------------------------- SwapchainSupport::get
\* The three queries in the order the struct literal evaluates them.
SwapchainSupport_get(dev, fault) ==
    IF fault = CapabilitiesFault THEN Err(ErrDriver)
    ELSE IF fault = FormatsFault THEN Err(ErrDriver)
    ELSE IF fault = PresentModesFault THEN Err(ErrDriver)
    ELSE Ok([capabilities |-> "capabilities",
             formats |-> dev.formats,
             present_modes |-> dev.present_modes])

\* ---------------------------------------- check_physical_device_extensions
\* Defined in the source and called from nowhere.
check_physical_device_extensions(dev) ==
    IF \A extension \in DEVICE_EXTENSIONS : extension \in dev.extensions
    THEN Ok("unit")
    ELSE Err(ErrExtensions)

\* ---------------------------------------------------- check_physical_device
\* The emptiness test with && where the code has ||.
check_physical_device_and(dev, fault) ==
    LET indices == QueueFamilyIndices_get(dev, fault)
        support == SwapchainSupport_get(dev, fault)
    IN  IF ~indices.ok THEN Err(indices.error)
        ELSE IF ~support.ok THEN Err(support.error)
        ELSE IF Unwrap(support.value).formats = <<>>
                /\ Unwrap(support.value).present_modes = <<>>
             THEN Err(ErrSwapchain)
        ELSE Ok("unit")

check_physical_device(dev, fault) ==
    LET indices == QueueFamilyIndices_get(dev, fault)
        support == SwapchainSupport_get(dev, fault)
    IN  IF ~indices.ok THEN Err(indices.error)
        ELSE IF ~support.ok THEN Err(support.error)
        ELSE IF Unwrap(support.value).formats = <<>>
                \/ Unwrap(support.value).present_modes = <<>>
             THEN Err(ErrSwapchain)
        ELSE Ok("unit")

\* ---------------------------------------------------- create_logical_device
\* One request per pushed index, without the HashSet: graphics, then
\* presentation.
queue_infos_of_vec(indices) ==
    {<<[queue_family_index |-> indices.graphics, queue_priorities |-> <<"1.0">>],
       [queue_family_index |-> indices.presentation, queue_priorities |-> <<"1.0">>]>>}

\* unique_indices is a HashSet: inserting graphics and presentation leaves one
\* element per distinct index; its iteration order is unspecified, so every
\* ordering of the set is a possible queue_infos vector.
queue_infos_of(indices) ==
    LET unique_indices == {indices.graphics, indices.presentation}
        n == Cardinality(unique_indices)
    IN  {[k \in 1..n |-> [queue_family_index |-> order[k],
                          queue_priorities |-> <<"1.0">>]] :
            order \in {o \in [1..n -> unique_indices] :
                          \A a, b \in 1..n : a # b => o[a] # o[b]}}

\* device.get_device_queue(family, index): the handle of queue `index` of
\* family `family`.
get_device_queue(family, index) == [family |-> family, index |-> index]
NullQueue == [family |-> -1, index |-> -1]

\* --------------------------------------------------------------- App::destroy
\* The messenger destroyed whatever VALIDATION_ENABLED is, and the instance
\* before the surface.
App_destroy_calls_misordered(validation) ==
    <<"destroy_device", "destroy_instance", "destroy_debug_utils_messenger_ext",
      "destroy_surface_khr">>

\* The native destruction calls App::destroy makes, in the order it makes them.
App_destroy_calls(validation) ==
    <<"destroy_device", "destroy_surface_khr">>
        \o (IF validation THEN <<"destroy_debug_utils_messenger_ext">> ELSE <<>>)
        \o <<"destroy_instance">>

\* ------------------------------------------------------------------ state
VARIABLES
    pc,                  \* where main is: "main", "create_instance",
                         \* "create_surface", "select_physical_device",
                         \* "select_loop", "select_next",
                         \* "create_logical_device",
                         \* "event_loop", "exited"
    VALIDATION_ENABLED,  \* cfg!(debug_assertions): fixed by the build
    failure,             \* the error main returned with, or NoError
    data,                \* AppData
    calls,               \* the successful native create/destroy calls and the
                         \* App::render calls, in the order they were made
    enumerated,          \* Some(number of handles enumerate_physical_devices
                         \* returned), None before it returned
    probe,               \* Some(handle, driver's description, failing query)
                         \* of the device under examination, None when no
                         \* device is
    indices,             \* what the last QueueFamilyIndices::get returned
    evaluated,           \* per loop iteration of select_physical_device: the
                         \* handle and what check_physical_device returned
    logged,              \* the warn!/info! lines of select_physical_device
    queue_infos,         \* the DeviceQueueCreateInfo vector given to
                         \* create_device
    destroying,          \* main's flag
    control_flow,        \* the event loop's ControlFlow
    events               \* the events delivered to the closure so far

vars == <<pc, VALIDATION_ENABLED, failure, data, calls, enumerated, probe,
          indices, evaluated, logged, queue_infos, destroying, control_flow,
          events>>

createVars == <<enumerated, probe, indices, evaluated, logged, queue_infos>>
loopVars == <<destroying, control_flow, events>>

\* AppData::default(): every handle null.
AppData_default ==
    [messenger |-> NullHandle, physical_device |-> NullHandle,
     graphics_queue |-> NullQueue, surface |-> NullHandle,
     presentation_queue |-> NullQueue]

Init ==
    /\ pc = "main"
    /\ VALIDATION_ENABLED \in BOOLEAN
    /\ failure = NoError
    /\ data = AppData_default
    /\ calls = <<>>
    /\ enumerated = None
    /\ probe = None
    /\ indices = None
    /\ evaluated = <<>>
    /\ logged = <<>>
    /\ queue_infos = <<>>
    /\ destroying = FALSE
    /\ control_flow = "Poll"
    /\ events = <<>>

\* An error leaves App::create through ? and main through the ? of line 56:
\* the process ends and nothing that was created is destroyed.
Fail(e) ==
    /\ pc' = "exited"
    /\ failure' = e

\* ------------------------------------------------------------- App::create
\* Lines 95-97: the loader and the entry points, then AppData::default().
load_entry ==
    /\ pc = "main"
    /\ \E loaded \in BOOLEAN :
          IF loaded
          THEN pc' = "create_instance" /\ failure' = failure
          ELSE Fail(ErrLoader)
    /\ UNCHANGED <<VALIDATION_ENABLED, data, calls, createVars, loopVars>>

create_instance ==
    /\ pc = "create_instance"
    /\ \E layers \in {Err(ErrDriver)} \cup {Ok(l) : l \in SUBSET LayerUniverse},
          instance_created \in BOOLEAN,
          messenger_created \in BOOLEAN :
          IF ~layers.ok
          THEN Fail(layers.error) /\ UNCHANGED <<data, calls>>
          ELSE IF VALIDATION_ENABLED /\ VALIDATION_LAYER \notin Unwrap(layers.value)
          THEN Fail(ErrLayer) /\ UNCHANGED <<data, calls>>
          ELSE IF ~instance_created
          THEN Fail(ErrDriver) /\ UNCHANGED <<data, calls>>
          ELSE IF ~VALIDATION_ENABLED
          THEN /\ calls' = Append(calls, "create_instance")
               /\ pc' = "create_surface"
               /\ UNCHANGED <<failure, data>>
          ELSE IF ~messenger_created
          THEN /\ calls' = Append(calls, "create_instance")
               /\ Fail(ErrDriver)
               /\ UNCHANGED data
          ELSE /\ calls' = calls \o <<"create_instance",
                                      "create_debug_utils_messenger_ext">>
               /\ data' = [data EXCEPT !.messenger = 1]
               /\ pc' = "create_surface"
               /\ UNCHANGED failure
    /\ UNCHANGED <<VALIDATION_ENABLED, createVars, loopVars>>

\* Line 99: vk_window::create_surface.
create_surface ==
    /\ pc = "create_surface"
    /\ \E created \in BOOLEAN :
          IF created
          THEN /\ calls' = Append(calls, "create_surface")
               /\ data' = [data EXCEPT !.surface = 1]
               /\ pc' = "select_physical_device"
               /\ UNCHANGED failure
          ELSE Fail(ErrDriver) /\ UNCHANGED <<data, calls>>
    /\ UNCHANGED <<VALIDATION_ENABLED, createVars, loopVars>>

\* ---------------------------------------------------- select_physical_device
\* Line 367: instance.enumerate_physical_devices()?. The handles are 1..n in
\* the order the driver reports them.
select_physical_device_enumerate ==
    /\ pc = "select_physical_device"
    /\ \E devices \in {Err(ErrDriver)} \cup {Ok(n) : n \in 0..MaxDevices} :
          IF devices.ok
          THEN /\ enumerated' = devices.value
               /\ pc' = "select_loop"
               /\ UNCHANGED failure
          ELSE Fail(devices.error) /\ UNCHANGED enumerated
    /\ UNCHANGED <<VALIDATION_ENABLED, data, calls, probe, indices, evaluated,
                   logged, queue_infos, loopVars>>

\* The loop body without its return: a device that passes is stored and the
\* loop goes on to the next one.
select_physical_device_iteration_no_return ==
    /\ pc = "select_loop"
    /\ Len(evaluated) < Unwrap(enumerated)
    /\ LET physical_device == Len(evaluated) + 1
       IN  \E dev \in PhysicalDevice :
           \E fault \in Faults(dev) :
              LET result == check_physical_device(dev, fault)
              IN  /\ probe' = Some([handle |-> physical_device, dev |-> dev,
                                    fault |-> fault])
                  /\ indices' = Some(QueueFamilyIndices_get(dev, fault))
                  /\ evaluated' = Append(evaluated,
                                    [handle |-> physical_device, result |-> result])
                  /\ IF ~result.ok
                     THEN /\ logged' = Append(logged,
                                 [level |-> "warn", handle |-> physical_device,
                                  text |-> result.error])
                          /\ UNCHANGED data
                     ELSE /\ logged' = Append(logged,
                                 [level |-> "info", handle |-> physical_device,
                                  text |-> "Selected device"])
                          /\ data' = [data EXCEPT !.physical_device = physical_device]
                  /\ pc' = "select_next"
                  /\ UNCHANGED failure
    /\ UNCHANGED <<VALIDATION_ENABLED, calls, enumerated, queue_infos, loopVars>>

\* Lines 367-381: one iteration of the for loop, on the next handle: the
\* driver describes the device, check_physical_device judges it; any Err is
\* logged with warn! and the loop continues; Ok is logged with info!, the
\* handle is stored and the function returns Ok.
select_physical_device_iteration ==
    /\ pc = "select_loop"
    /\ Len(evaluated) < Unwrap(enumerated)
    /\ LET physical_device == Len(evaluated) + 1
       IN  \E dev \in PhysicalDevice :
           \E fault \in Faults(dev) :
              LET result == check_physical_device(dev, fault)
              IN  /\ probe' = Some([handle |-> physical_device, dev |-> dev,
                                    fault |-> fault])
                  /\ indices' = Some(QueueFamilyIndices_get(dev, fault))
                  /\ evaluated' = Append(evaluated,
                                    [handle |-> physical_device, result |-> result])
                  /\ IF ~result.ok
                     THEN /\ logged' = Append(logged,
                                 [level |-> "warn", handle |-> physical_device,
                                  text |-> result.error])
                          /\ pc' = "select_next"
                          /\ UNCHANGED data
                     ELSE /\ logged' = Append(logged,
                                 [level |-> "info", handle |-> physical_device,
                                  text |-> "Selected device"])
                          /\ data' = [data EXCEPT !.physical_device = physical_device]
                          /\ pc' = "create_logical_device"
                  /\ UNCHANGED failure
    /\ UNCHANGED <<VALIDATION_ENABLED, calls, enumerated, queue_infos, loopVars>>

\* Line 381: the end of the loop body after a rejected device. Its locals
\* (the device's properties, the error) are dropped and the loop takes the
\* next handle.
select_physical_device_next ==
    /\ pc = "select_next"
    /\ pc' = "select_loop"
    /\ probe' = None
    /\ indices' = None
    /\ UNCHANGED <<VALIDATION_ENABLED, failure, data, calls, enumerated,
                   evaluated, logged, queue_infos, loopVars>>

\* Line 383: the loop ran out of handles.
select_physical_device_exhausted ==
    /\ pc = "select_loop"
    /\ Len(evaluated) = Unwrap(enumerated)
    /\ Fail(ErrNoDevice)
    /\ UNCHANGED <<VALIDATION_ENABLED, data, calls, createVars, loopVars>>

\* Lines 392-439, on data.physical_device (the device examined last): the
\* indices are resolved again, so the surface-support queries are made again
\* and may fail now; create_device may fail; then the two queues are
\* retrieved.
create_logical_device ==
    /\ pc = "create_logical_device"
    /\ LET selected == Unwrap(probe)
       IN  \E fault \in Faults(selected.dev), device_created \in BOOLEAN :
              LET got == QueueFamilyIndices_get(selected.dev, fault)
              IN  /\ indices' = Some(got)
                  /\ IF ~got.ok
                     THEN /\ Fail(got.error)
                          /\ probe' = Some([selected EXCEPT !.fault = fault])
                          /\ UNCHANGED <<data, calls, queue_infos>>
                     ELSE IF ~device_created
                     THEN /\ Fail(ErrDriver)
                          /\ probe' = Some([selected EXCEPT !.fault = fault])
                          /\ UNCHANGED <<data, calls, queue_infos>>
                     ELSE LET found == Unwrap(got.value)
                          IN  /\ probe' = None
                              /\ queue_infos' \in queue_infos_of(found)
                              /\ calls' = Append(calls, "create_device")
                              /\ data' = [data EXCEPT
                                    !.graphics_queue =
                                        get_device_queue(found.graphics, 0),
                                    !.presentation_queue =
                                        get_device_queue(found.presentation, 0)]
                              /\ pc' = "event_loop"
                              /\ UNCHANGED failure
    /\ UNCHANGED <<VALIDATION_ENABLED, enumerated, evaluated, logged, loopVars>>

\* ------------------------------------------------------ the event-loop closure
\* Line 60. The loop keeps Exit once it is set (winit's ControlFlow::Exit is
\* sticky), so the assignment shows only while the flow is not Exit.
Polled == IF control_flow = "Exit" THEN "Exit" ELSE "Poll"

\* The first arm without its guard: render whatever destroying is.
on_main_events_cleared_unguarded ==
    /\ pc = "event_loop"
    /\ Len(events) < MaxEvents
    /\ events' = Append(events, "MainEventsCleared")
    /\ control_flow' = Polled
    /\ calls' = Append(calls, "render")
    /\ UNCHANGED <<pc, VALIDATION_ENABLED, failure, data, createVars, destroying>>

\* Lines 64-67 and 75: MainEventsCleared renders if destroying is false and
\* falls to the catch-all arm otherwise. App::render returns Ok(()).
on_main_events_cleared ==
    /\ pc = "event_loop"
    /\ Len(events) < MaxEvents
    /\ events' = Append(events, "MainEventsCleared")
    /\ control_flow' = Polled
    /\ IF ~destroying
       THEN calls' = Append(calls, "render")
       ELSE UNCHANGED calls
    /\ UNCHANGED <<pc, VALIDATION_ENABLED, failure, data, createVars, destroying>>

\* Lines 69-74: CloseRequested sets the flag, asks the loop to exit and runs
\* App::destroy.
on_close_requested ==
    /\ pc = "event_loop"
    /\ Len(events) < MaxEvents
    /\ events' = Append(events, "CloseRequested")
    /\ destroying' = TRUE
    /\ control_flow' = "Exit"
    /\ calls' = calls \o App_destroy_calls(VALIDATION_ENABLED)
    /\ UNCHANGED <<pc, VALIDATION_ENABLED, failure, data, createVars>>

\* Line 75: every other event.
on_other_event ==
    /\ pc = "event_loop"
    /\ Len(events) < MaxEvents
    /\ events' = Append(events, "Other")
    /\ control_flow' = Polled
    /\ UNCHANGED <<pc, VALIDATION_ENABLED, failure, data, calls, createVars,
                   destroying>>

\* event_loop.run ends the process once the flow is Exit; events already
\* queued may still reach the closure before it does.
event_loop_exit ==
    /\ pc = "event_loop"
    /\ control_flow = "Exit"
    /\ pc' = "exited"
    /\ UNCHANGED <<VALIDATION_ENABLED, failure, data, calls, createVars, loopVars>>

Next ==
    \/ load_entry
    \/ create_instance
    \/ create_surface
    \/ select_physical_device_enumerate
    \/ select_physical_device_iteration
    \/ select_physical_device_next
    \/ select_physical_device_exhausted
    \/ create_logical_device
    \/ on_main_events_cleared
    \/ on_close_requested
    \/ on_other_event
    \/ event_loop_exit

Spec == Init /\ [][Next]_vars

\* ------------------------------------------------------- reading the state
Range(s) == {s[i] : i \in DOMAIN s}
Count(s, x) == Cardinality({i \in DOMAIN s : s[i] = x})
Min(S) == CHOOSE m \in S : \A x \in S : m <= x

\* The loop body of select_physical_device has just judged a device: probe
\* is that device and the last entry of evaluated is the verdict.
JustEvaluated == pc \in {"select_next", "create_logical_device"}
Current == Unwrap(probe)
Verdict == evaluated[Len(evaluated)].result

\* 0-based indices of the families with the graphics flag, and of those that
\* can present to the surface.
GraphicsFamilies(dev) ==
    {i \in 0..(Len(dev.families) - 1) : "GRAPHICS" \in dev.families[i + 1].queue_flags}
PresentFamilies(dev) ==
    {i \in 0..(Len(dev.families) - 1) : dev.families[i + 1].surface_support}

IsDestroyCall(c) ==
    c \in {"destroy_device", "destroy_surface_khr",
           "destroy_debug_utils_messenger_ext", "destroy_instance"}
DestroyCalls == SelectSeq(calls, IsDestroyCall)

\* ------------------------------------------------------------------ claims

\* C1 (as claimed; the code violates it): a device examined by
\* select_physical_device whose extensions lack a member of DEVICE_EXTENSIONS
\* is rejected with "Missing required device extensions" and is not stored
\* as data.physical_device, even when its queue families resolve, its format
\* and present-mode lists are non-empty and every query succeeds.
C1_MissingExtensionRejected ==
    ( /\ JustEvaluated
      /\ ~(DEVICE_EXTENSIONS \subseteq Current.dev.extensions)
      /\ GraphicsFamilies(Current.dev) # {}
      /\ PresentFamilies(Current.dev) # {}
      /\ Current.dev.formats # <<>>
      /\ Current.dev.present_modes # <<>>
      /\ Current.fault = NoFault )
        => /\ ~Verdict.ok
           /\ Verdict.error = ErrExtensions
           /\ data.physical_device # Current.handle

\* C2: the devices are examined in driver order 1, 2, ...; the first one that
\* passes (the K-th) ends the loop, is stored in data.physical_device and no
\* later one is examined; each of the K-1 before it has a warn! line with its
\* reason; when all n enumerated devices fail (n = 0 included, then with no
\* device examined at all) the function fails with "No suitable physical
\* device found" and stores nothing.
C2_FirstSuitableSelected ==
    /\ Len(logged) = Len(evaluated)
    /\ enumerated # None => Len(evaluated) <= Unwrap(enumerated)
    /\ \A i \in 1..Len(evaluated) :
          /\ evaluated[i].handle = i
          /\ evaluated[i].result.ok
                => /\ i = Len(evaluated)
                   /\ data.physical_device = i
                   /\ pc \notin {"select_loop", "select_next"}
                   /\ failure # ErrNoDevice
                   /\ logged[i].level = "info"
          /\ ~evaluated[i].result.ok
                => logged[i] = [level |-> "warn", handle |-> i,
                                text |-> evaluated[i].result.error]
    /\ data.physical_device # NullHandle
          => /\ evaluated # <<>>
             /\ evaluated[Len(evaluated)].result.ok
    /\ failure = ErrNoDevice
          => /\ Len(evaluated) = Unwrap(enumerated)
             /\ \A i \in 1..Len(evaluated) : ~evaluated[i].result.ok
             /\ data.physical_device = NullHandle
    /\ ( /\ pc = "exited"
         /\ enumerated # None
         /\ \A i \in 1..Len(evaluated) : ~evaluated[i].result.ok )
          => failure = ErrNoDevice
    /\ enumerated = Some(0) => (evaluated = <<>> /\ probe = None /\ indices = None)

\* C2 witness: the first device was rejected, the second passed and is the
\* one stored.
C2_Witness ==
    /\ Len(evaluated) = 2
    /\ ~evaluated[1].result.ok
    /\ evaluated[2].result.ok
    /\ data.physical_device = 2
    /\ pc = "create_logical_device"

\* C3: the destruction calls of each App::destroy are, in this order, logical
\* device, surface, debug messenger, instance, with the messenger call there
\* exactly when VALIDATION_ENABLED, which is exactly when create_instance
\* created a messenger.
C3_DestroyOrder ==
    LET expected == IF VALIDATION_ENABLED
                    THEN <<"destroy_device", "destroy_surface_khr",
                           "destroy_debug_utils_messenger_ext", "destroy_instance">>
                    ELSE <<"destroy_device", "destroy_surface_khr",
                           "destroy_instance">>
        n == Len(expected)
    IN  /\ Len(DestroyCalls) % n = 0
        /\ \A j \in 1..Len(DestroyCalls) :
              DestroyCalls[j] = expected[((j - 1) % n) + 1]
        /\ DestroyCalls # <<>>
              => ( "destroy_debug_utils_messenger_ext" \in Range(calls)
                      <=> "create_debug_utils_messenger_ext" \in Range(calls) )

\* C3 witness: App::destroy has run in a build with validation enabled.
C3_Witness ==
    /\ VALIDATION_ENABLED
    /\ data.messenger # NullHandle
    /\ "destroy_instance" \in Range(calls)

\* C4 (as claimed; the code violates it): App::destroy is invoked at most
\* once whatever events are delivered, and exactly once if a CloseRequested
\* was delivered.
C4_DestroyAtMostOnce ==
    /\ Count(calls, "destroy_device") <= 1
    /\ "CloseRequested" \in Range(events) => Count(calls, "destroy_device") = 1

\* C5 (as claimed; the code violates it): a driver error from a query made
\* while a device is examined is not logged as a skip; it ends
\* select_physical_device and App::create with that error, and no later
\* device is examined.
C5_DriverErrorIsFatal ==
    \A i \in 1..Len(evaluated) :
        evaluated[i].result.error = ErrDriver
            => /\ i = Len(evaluated)
               /\ pc = "exited"
               /\ failure = ErrDriver
               /\ \A k \in 1..Len(logged) : logged[k].handle # i

\* C6: when every surface-support query that is made succeeds,
\* QueueFamilyIndices::get returns graphics = the least index with the
\* GRAPHICS flag and presentation = the least index whose surface-support
\* answer is true, each found without regard to the other, and it fails, with
\* "Missing required queue families", exactly when one of the two sets is
\* empty.
C6_FirstGraphicsFirstPresentation ==
    (probe # None /\ indices # None)
        => LET dev == Current.dev
               fault == Current.fault
               G == GraphicsFamilies(dev)
               P == PresentFamilies(dev)
               got == Unwrap(indices)
               queries_succeed ==
                   \/ fault.query # "get_physical_device_surface_support_khr"
                   \/ (P # {} /\ fault.family > Min(P))
           IN  queries_succeed
                  => /\ got.ok <=> (G # {} /\ P # {})
                     /\ ~got.ok => got.error = ErrQueueFamilies
                     /\ got.ok => /\ Unwrap(got.value).graphics = Min(G)
                                  /\ Unwrap(got.value).presentation = Min(P)

\* C6 witness: a device with two graphics-and-present candidates where the
\* two searches settle on different families.
C6_Witness ==
    /\ probe # None
    /\ indices # None
    /\ Unwrap(indices).ok
    /\ Unwrap(Unwrap(indices).value).graphics # Unwrap(Unwrap(indices).value).presentation
    /\ Cardinality(PresentFamilies(Current.dev)) = 2

\* C7: create_logical_device gives create_device one queue-creation request
\* per distinct index among {graphics, presentation}: one when they are
\* equal, two when they differ, each for a single queue at priority 1.0; the
\* graphics and the presentation queue are then retrieved, at queue index 0,
\* from families that are among the requests.
C7_OneRequestPerDistinctFamily ==
    "create_device" \in Range(calls)
        => LET found == Unwrap(Unwrap(indices).value)
               requested == {queue_infos[k].queue_family_index : k \in DOMAIN queue_infos}
           IN  /\ Len(queue_infos) =
                      IF found.graphics = found.presentation THEN 1 ELSE 2
               /\ \A a, b \in DOMAIN queue_infos :
                      a # b => queue_infos[a].queue_family_index
                                  # queue_infos[b].queue_family_index
               /\ requested = {found.graphics, found.presentation}
               /\ \A k \in DOMAIN queue_infos :
                      queue_infos[k].queue_priorities = <<"1.0">>
               /\ data.graphics_queue = [family |-> found.graphics, index |-> 0]
               /\ data.presentation_queue = [family |-> found.presentation, index |-> 0]
               /\ data.graphics_queue.family \in requested
               /\ data.presentation_queue.family \in requested

\* C7 witness: the logical device was created for a device whose graphics and
\* presentation indices coincide, with a single request.
C7_Witness ==
    /\ "create_device" \in Range(calls)
    /\ data.graphics_queue.family = data.presentation_queue.family
    /\ Len(queue_infos) = 1

\* C8 (as claimed; the code violates it): every examined device whose format
\* list or present-mode list is empty is rejected with "Insufficient
\* swapchain support" and with no other reason.
C8_EmptySwapchainAlwaysInsufficient ==
    (JustEvaluated /\ (Current.dev.formats = <<>> \/ Current.dev.present_modes = <<>>))
        => Verdict.error = ErrSwapchain

\* C8 (amended): every examined device whose format list or present-mode list
\* is empty is rejected and is not stored as data.physical_device; the reason
\* is "Insufficient swapchain support" whenever its queue families resolve
\* and no query fails, and otherwise the earlier failure: missing queue
\* families or the driver error.
C8_EmptySwapchainNeverAccepted ==
    (JustEvaluated /\ (Current.dev.formats = <<>> \/ Current.dev.present_modes = <<>>))
        => /\ ~Verdict.ok
           /\ pc # "create_logical_device"
           /\ data.physical_device # Current.handle
           /\ Verdict.error \in {ErrSwapchain, ErrQueueFamilies, ErrDriver}
           /\ ( /\ GraphicsFamilies(Current.dev) # {}
                /\ PresentFamilies(Current.dev) # {}
                /\ Current.fault = NoFault )
                 => Verdict.error = ErrSwapchain

\* C8 witness: a device with formats and no present mode, queue families
\* resolved, rejected for its swapchain support.
C8_Witness ==
    /\ JustEvaluated
    /\ Current.dev.formats # <<>>
    /\ Current.dev.present_modes = <<>>
    /\ GraphicsFamilies(Current.dev) # {}
    /\ PresentFamilies(Current.dev) # {}
    /\ Verdict.error = ErrSwapchain

\* C9 (as claimed; the code violates it): when the process has ended, every
\* handle that was created (instance, messenger, surface, logical device) has
\* been destroyed exactly once, a handle only after those that depend on it.
C9_EveryCreatedHandleDestroyedOnce ==
    pc = "exited"
        => /\ Count(calls, "destroy_instance") = Count(calls, "create_instance")
           /\ Count(calls, "destroy_debug_utils_messenger_ext")
                  = Count(calls, "create_debug_utils_messenger_ext")
           /\ Count(calls, "destroy_surface_khr") = Count(calls, "create_surface")
           /\ Count(calls, "destroy_device") = Count(calls, "create_device")
           /\ \A i, j \in DOMAIN calls :
                  (calls[i] = "destroy_instance" /\ IsDestroyCall(calls[j])) => j <= i

\* C10: App::render is never called after App::destroy: no render call
\* follows a destruction call, and destroying is true once App::destroy has
\* run.
C10_NoRenderAfterDestroy ==
    /\ \A i, j \in DOMAIN calls :
          (i < j /\ IsDestroyCall(calls[i])) => calls[j] # "render"
    /\ DestroyCalls # <<>> => destroying
    /\ "CloseRequested" \in Range(events) => destroying

\* C10 witness: a frame was rendered, the window was closed, and a
\* MainEventsCleared arrived after that.
C10_Witness ==
    /\ "render" \in Range(calls)
    /\ \E i, j \in DOMAIN events :
          /\ i < j
          /\ events[i] = "CloseRequested"
          /\ events[j] = "MainEventsCleared"

====
